---- MODULE Spec2Model ----
(***************************************************************************)
(* Model of manifest_get_main() of bootJVM/jvm/src/manifest.c: the search   *)
(* of a JAR manifest file for its "Main-Class:" attribute.                  *)
(*                                                                          *)
(* The function is one sequential routine.  The state is the manifest file  *)
(* (a sequence of bytes, fixed for a run), the stdio stream (open state and *)
(* read offset), the two heap blocks (the line buffer mnfdata and the       *)
(* result mnfresult), the locals i and j, and the position of the routine   *)
(* (pc).  One action per statement of the source.                           *)
(*                                                                          *)
(* Bytes are one-character strings; NUL and VT have no TLA+ escape and are  *)
(* written "NUL" and "VT".  C indices are kept 0-based: the heap blocks are *)
(* functions over 0..size-1.  An fgets() that returns NULL is end of file:  *)
(* read errors of an opened stream are not modelled.                        *)
(***************************************************************************)
EXTENDS Integers, Sequences, FiniteSets, TLC

\* ------------------------------------------------------------------ bounds

\* Size of the line buffer handed to fgets (jvmcfg.h sets the real value;
\* the model scales it down, keeping it larger than the attribute name).
JVMCFG_STDIO_BFR == 16

\* A manifest is the concatenation of at most MaxPieces pieces of text.
MaxPieces == 4

\* ------------------------------------------------------------------ bytes

NUL == "NUL"
VT == "VT"
\* Content of a heap byte that was never written (HEAP_GET_DATA(.., rfalse)).
UNINIT == "UNINIT"

\* JVMCFG_JARFILE_MANIFEST_MAIN_CLASS, the attribute name with its colon.
JVMCFG_JARFILE_MANIFEST_MAIN_CLASS ==
    <<"M", "a", "i", "n", "-", "C", "l", "a", "s", "s", ":">>

\* int mclen = strlen(JVMCFG_JARFILE_MANIFEST_MAIN_CLASS);
mclen == Len(JVMCFG_JARFILE_MANIFEST_MAIN_CLASS)

\* isspace() in the C locale: space, \t, \n, \v, \f, \r.
isspace(c) == c \in {" ", "\t", "\n", VT, "\f", "\r"}

\* ------------------------------------------------------------------ inputs

\* The attribute name with one letter in the other case.
McCase == <<"M", "a", "i", "n", "-", "c", "l", "a", "s", "s", ":">>
\* The attribute name without its colon: shorter than the compared prefix.
McShort == <<"M", "a", "i", "n", "-", "C", "l", "a", "s", "s">>
\* Text that fills one fgets() read exactly and holds no newline.
Pad == [k \in 1..(JVMCFG_STDIO_BFR - 1) |-> "x"]

Pieces ==
    { JVMCFG_JARFILE_MANIFEST_MAIN_CLASS, McCase, McShort, Pad,
      <<" ">>, <<"\n">>, <<"\r">>, <<"a">>, <<"b">>, <<NUL>> }

RECURSIVE Concat(_)
Concat(ps) == IF ps = <<>> THEN <<>> ELSE Head(ps) \o Concat(Tail(ps))

\* ------------------------------------------------------------------ state

VARIABLES
    file,        \* bytes of the manifest file named by mnfname
    pc,          \* position in manifest_get_main
    mf,          \* FILE *mf: "unopened", "null", "open", "closed"
    pos,         \* read offset of the stream mf
    linepos,     \* read offset at which the last fgets() started
    nfgets,      \* number of fgets() calls that delivered a line
    fcloseCount, \* number of fclose(mf) calls
    heapData,    \* heap block mnfdata: "none", "live", "freed"
    mnfdata,     \* bytes of the block mnfdata, indexed 0..JVMCFG_STDIO_BFR-1
    freeCount,   \* number of HEAP_FREE_DATA(mnfdata) calls
    i,           \* rint i (-1 before its declaration is reached)
    j,           \* rint j (-1 before its declaration is reached)
    heapResult,  \* heap block mnfresult: "none", "live"
    mnfresult,   \* bytes of the block mnfresult, indexed 0..j-i
    ret,         \* value returned: "none" (not returned), "rnull", "mnfresult"
    msgs,        \* messages emitted through sysErrMsg
    exitCode     \* "none", or the way the process was ended

vars == <<file, pc, mf, pos, linepos, nfgets, fcloseCount, heapData, mnfdata,
          freeCount, i, j, heapResult, mnfresult, ret, msgs, exitCode>>

\* ------------------------------------------------------------------ C library

Min(a, b) == IF a < b THEN a ELSE b

\* Number of bytes one fgets(buf, n, mf) takes from offset p: up to n-1
\* bytes, stopping after a newline or at end of file.
FgetsLen(f, p, n) ==
    LET avail == Min(Len(f) - p, n - 1)
        nl == {k \in 1..avail : f[p + k] = "\n"}
    IN IF nl = {} THEN avail
       ELSE CHOOSE k \in nl : \A m \in nl : k <= m

\* The buffer after fgets() stored len bytes from offset p and a NUL.
FgetsStore(buf, f, p, len) ==
    [k \in DOMAIN buf |->
        IF k < len THEN f[p + k + 1]
        ELSE IF k = len THEN NUL
        ELSE buf[k]]

\* strlen(): index of the first NUL of the block.
strlen(buf) ==
    CHOOSE k \in DOMAIN buf : buf[k] = NUL /\ \A m \in 0..(k - 1) : buf[m] # NUL

\* Mutant of StrncmpEqual: strcmp() in place of strncmp(), the whole line
\* compared with the attribute name.
StrcmpEqual(buf, s, n) == (\A k \in 0..(n - 1) : buf[k] = s[k + 1]) /\ buf[n] = NUL

\* 0 == strncmp(buf, s, n) for a string s of at least n bytes, none NUL.
StrncmpEqual(buf, s, n) == \A k \in 0..(n - 1) : buf[k] = s[k + 1]

\* Mutant of ScanNonWhite: the loop that skips the white space is missing.
ScanNonWhiteNoSkip(buf, from) == from

\* for (i = from; i < strlen(buf); i++) if (0 == isspace(buf[i])) break;
ScanNonWhite(buf, from) ==
    LET stop == {k \in from..(strlen(buf) - 1) : ~isspace(buf[k])}
    IN IF stop = {} THEN (IF from < strlen(buf) THEN strlen(buf) ELSE from)
       ELSE CHOOSE k \in stop : \A m \in stop : k <= m

\* Mutant of ScanWhite: the class name is taken to run to the end of the line.
ScanWhiteToEnd(buf, from) == IF from < strlen(buf) THEN strlen(buf) ELSE from

\* for (j = from; j < strlen(buf); j++) if (0 != isspace(buf[j])) break;
ScanWhite(buf, from) ==
    LET stop == {k \in from..(strlen(buf) - 1) : isspace(buf[k])}
    IN IF stop = {} THEN (IF from < strlen(buf) THEN strlen(buf) ELSE from)
       ELSE CHOOSE k \in stop : \A m \in stop : k <= m

\* Mutant of NonEmptyName: the test for an empty class name is missing.
NonEmptyNameAlways(a, b) == TRUE

\* if (i != j)
NonEmptyName(a, b) == a # b

\* ------------------------------------------------------------------ Init

Init ==
    /\ \E n \in 0..MaxPieces : \E ps \in [1..n -> Pieces] : file = Concat(ps)
    /\ pc = "fopen"
    /\ mf = "unopened"
    /\ pos = 0
    /\ linepos = 0
    /\ nfgets = 0
    /\ fcloseCount = 0
    /\ heapData = "none"
    /\ mnfdata = [k \in 0..(JVMCFG_STDIO_BFR - 1) |-> UNINIT]
    /\ freeCount = 0
    /\ i = -1
    /\ j = -1
    /\ heapResult = "none"
    /\ mnfresult = <<>>
    /\ ret = "none"
    /\ msgs = <<>>
    /\ exitCode = "none"

\* ------------------------------------------------------------------ actions

\* FILE *mf = fopen(mnfname, "r"); succeeds.
FopenOk ==
    /\ pc = "fopen"
    /\ mf' = "open"
    /\ pc' = "alloc_data"
    /\ UNCHANGED <<file, pos, linepos, nfgets, fcloseCount, heapData, mnfdata,
                   freeCount, i, j, heapResult, mnfresult, ret, msgs, exitCode>>

\* fopen fails: if (rnull == mf) return((rchar *) rnull);
FopenFail ==
    /\ pc = "fopen"
    /\ mf' = "null"
    /\ ret' = "rnull"
    /\ pc' = "done"
    /\ UNCHANGED <<file, pos, linepos, nfgets, fcloseCount, heapData, mnfdata,
                   freeCount, i, j, heapResult, mnfresult, msgs, exitCode>>

\* rchar *mnfdata = HEAP_GET_DATA(JVMCFG_STDIO_BFR, rfalse);
AllocData ==
    /\ pc = "alloc_data"
    /\ heapData' = "live"
    /\ mnfdata' = [k \in 0..(JVMCFG_STDIO_BFR - 1) |-> UNINIT]
    /\ pc' = "fgets"
    /\ UNCHANGED <<file, mf, pos, linepos, nfgets, fcloseCount, freeCount, i, j,
                   heapResult, mnfresult, ret, msgs, exitCode>>

\* HEAP_GET_DATA does not return when the heap is exhausted ("If failure
\* above, HEAP_FREE_DATA(mnfdata) is never run").
AllocFail ==
    /\ pc \in {"alloc_data", "alloc_result"}
    /\ pc = "alloc_result" => NonEmptyName(i, j)
    /\ exitCode' = "HEAP_GET_DATA"
    /\ pc' = "exited"
    /\ UNCHANGED <<file, mf, pos, linepos, nfgets, fcloseCount, heapData, mnfdata,
                   freeCount, i, j, heapResult, mnfresult, ret, msgs>>

\* while (mnfdata == fgets(mnfdata, JVMCFG_STDIO_BFR, mf)): a line is read.
FgetsLine ==
    /\ pc = "fgets"
    /\ FgetsLen(file, pos, JVMCFG_STDIO_BFR) > 0
    /\ LET len == FgetsLen(file, pos, JVMCFG_STDIO_BFR)
       IN /\ mnfdata' = FgetsStore(mnfdata, file, pos, len)
          /\ pos' = pos + len
    /\ linepos' = pos
    /\ nfgets' = nfgets + 1
    /\ pc' = "strncmp"
    /\ UNCHANGED <<file, mf, fcloseCount, heapData, freeCount, i, j, heapResult,
                   mnfresult, ret, msgs, exitCode>>

\* fgets returns NULL at end of file: the loop ends.
FgetsEof ==
    /\ pc = "fgets"
    /\ FgetsLen(file, pos, JVMCFG_STDIO_BFR) = 0
    /\ pc' = "fclose_end"
    /\ UNCHANGED <<file, mf, pos, linepos, nfgets, fcloseCount, heapData, mnfdata,
                   freeCount, i, j, heapResult, mnfresult, ret, msgs, exitCode>>

\* if (0 != strncmp(mnfdata, JVMCFG_JARFILE_MANIFEST_MAIN_CLASS, mclen)) continue;
PrefixDiffers ==
    /\ pc = "strncmp"
    /\ ~StrncmpEqual(mnfdata, JVMCFG_JARFILE_MANIFEST_MAIN_CLASS, mclen)
    /\ pc' = "fgets"
    /\ UNCHANGED <<file, mf, pos, linepos, nfgets, fcloseCount, heapData, mnfdata,
                   freeCount, i, j, heapResult, mnfresult, ret, msgs, exitCode>>

\* The attribute name was found at the start of the buffer.
PrefixMatches ==
    /\ pc = "strncmp"
    /\ StrncmpEqual(mnfdata, JVMCFG_JARFILE_MANIFEST_MAIN_CLASS, mclen)
    /\ pc' = "scan_i"
    /\ UNCHANGED <<file, mf, pos, linepos, nfgets, fcloseCount, heapData, mnfdata,
                   freeCount, i, j, heapResult, mnfresult, ret, msgs, exitCode>>

\* First loop: the first non-white character after the attribute name.
ScanI ==
    /\ pc = "scan_i"
    /\ i' = ScanNonWhite(mnfdata, mclen)
    /\ pc' = "scan_j"
    /\ UNCHANGED <<file, mf, pos, linepos, nfgets, fcloseCount, heapData, mnfdata,
                   freeCount, j, heapResult, mnfresult, ret, msgs, exitCode>>

\* Second loop: the first white character after the class name.
ScanJ ==
    /\ pc = "scan_j"
    /\ j' = ScanWhite(mnfdata, i)
    /\ pc' = "fclose_match"
    /\ UNCHANGED <<file, mf, pos, linepos, nfgets, fcloseCount, heapData, mnfdata,
                   freeCount, i, heapResult, mnfresult, ret, msgs, exitCode>>

\* Mutant of FcloseMatch: the stream is left open on the matching path.
FcloseMatchMissing ==
    /\ pc = "fclose_match"
    /\ pc' = "alloc_result"
    /\ UNCHANGED <<file, mf, pos, linepos, nfgets, fcloseCount, heapData, mnfdata,
                   freeCount, i, j, heapResult, mnfresult, ret, msgs, exitCode>>

\* fclose(mf); after a matching line.
FcloseMatch ==
    /\ pc = "fclose_match"
    /\ mf' = "closed"
    /\ fcloseCount' = fcloseCount + 1
    /\ pc' = "alloc_result"
    /\ UNCHANGED <<file, pos, linepos, nfgets, heapData, mnfdata, freeCount, i, j,
                   heapResult, mnfresult, ret, msgs, exitCode>>

\* if (i != j) mnfresult = HEAP_GET_DATA(j - i + sizeof(rchar), rfalse);
AllocResult ==
    /\ pc = "alloc_result"
    /\ NonEmptyName(i, j)
    /\ heapResult' = "live"
    /\ mnfresult' = [k \in 0..(j - i) |-> UNINIT]
    /\ pc' = "memcpy"
    /\ UNCHANGED <<file, mf, pos, linepos, nfgets, fcloseCount, heapData, mnfdata,
                   freeCount, i, j, ret, msgs, exitCode>>

\* else HEAP_FREE_DATA(mnfdata);
EmptyFree ==
    /\ pc = "alloc_result"
    /\ ~NonEmptyName(i, j)
    /\ heapData' = "freed"
    /\ freeCount' = freeCount + 1
    /\ pc' = "errmsg"
    /\ UNCHANGED <<file, mf, pos, linepos, nfgets, fcloseCount, mnfdata, i, j,
                   heapResult, mnfresult, ret, msgs, exitCode>>

\* sysErrMsg("manifest_get_main", "Missing class name in manifest file %s", ..);
EmptyErrMsg ==
    /\ pc = "errmsg"
    /\ msgs' = Append(msgs, "Missing class name in manifest file")
    /\ pc' = "exit_jvm"
    /\ UNCHANGED <<file, mf, pos, linepos, nfgets, fcloseCount, heapData, mnfdata,
                   freeCount, i, j, heapResult, mnfresult, ret, exitCode>>

\* Mutant of EmptyExit: "continue" in place of the exit, the scan goes on.
EmptyContinue ==
    /\ pc = "exit_jvm"
    /\ pc' = "fgets"
    /\ UNCHANGED <<file, mf, pos, linepos, nfgets, fcloseCount, heapData, mnfdata,
                   freeCount, i, j, heapResult, mnfresult, ret, msgs, exitCode>>

\* Mutant of EmptyExit: the error is answered with rnull in place of the exit.
EmptyReturnNull ==
    /\ pc = "exit_jvm"
    /\ ret' = "rnull"
    /\ pc' = "done"
    /\ UNCHANGED <<file, mf, pos, linepos, nfgets, fcloseCount, heapData, mnfdata,
                   freeCount, i, j, heapResult, mnfresult, msgs, exitCode>>

\* exit_jvm(EXIT_MANIFEST_JAR); /*NOTREACHED*/
EmptyExit ==
    /\ pc = "exit_jvm"
    /\ exitCode' = "EXIT_MANIFEST_JAR"
    /\ pc' = "exited"
    /\ UNCHANGED <<file, mf, pos, linepos, nfgets, fcloseCount, heapData, mnfdata,
                   freeCount, i, j, heapResult, mnfresult, ret, msgs>>

\* memcpy(mnfresult, &mnfdata[i], j - i);
Memcpy ==
    /\ pc = "memcpy"
    /\ mnfresult' = [k \in DOMAIN mnfresult |->
                        IF k < j - i THEN mnfdata[i + k] ELSE mnfresult[k]]
    /\ pc' = "terminate"
    /\ UNCHANGED <<file, mf, pos, linepos, nfgets, fcloseCount, heapData, mnfdata,
                   freeCount, i, j, heapResult, ret, msgs, exitCode>>

\* mnfresult[j - i] = '\0';
Terminate ==
    /\ pc = "terminate"
    /\ mnfresult' = [mnfresult EXCEPT ![j - i] = NUL]
    /\ pc' = "free_found"
    /\ UNCHANGED <<file, mf, pos, linepos, nfgets, fcloseCount, heapData, mnfdata,
                   freeCount, i, j, heapResult, ret, msgs, exitCode>>

\* Mutant of FoundFree: the line buffer is not freed before the return.
FoundFreeMissing ==
    /\ pc = "free_found"
    /\ pc' = "return_found"
    /\ UNCHANGED <<file, mf, pos, linepos, nfgets, fcloseCount, heapData, mnfdata,
                   freeCount, i, j, heapResult, mnfresult, ret, msgs, exitCode>>

\* HEAP_FREE_DATA(mnfdata); on the path that found a class name.
FoundFree ==
    /\ pc = "free_found"
    /\ heapData' = "freed"
    /\ freeCount' = freeCount + 1
    /\ pc' = "return_found"
    /\ UNCHANGED <<file, mf, pos, linepos, nfgets, fcloseCount, mnfdata, i, j,
                   heapResult, mnfresult, ret, msgs, exitCode>>

\* return(mnfresult);
ReturnFound ==
    /\ pc = "return_found"
    /\ ret' = "mnfresult"
    /\ pc' = "done"
    /\ UNCHANGED <<file, mf, pos, linepos, nfgets, fcloseCount, heapData, mnfdata,
                   freeCount, i, j, heapResult, mnfresult, msgs, exitCode>>

\* fclose(mf); after the loop.
FcloseEnd ==
    /\ pc = "fclose_end"
    /\ mf' = "closed"
    /\ fcloseCount' = fcloseCount + 1
    /\ pc' = "free_end"
    /\ UNCHANGED <<file, pos, linepos, nfgets, heapData, mnfdata, freeCount, i, j,
                   heapResult, mnfresult, ret, msgs, exitCode>>

\* HEAP_FREE_DATA(mnfdata); after the loop.
EndFree ==
    /\ pc = "free_end"
    /\ heapData' = "freed"
    /\ freeCount' = freeCount + 1
    /\ pc' = "return_null"
    /\ UNCHANGED <<file, mf, pos, linepos, nfgets, fcloseCount, mnfdata, i, j,
                   heapResult, mnfresult, ret, msgs, exitCode>>

\* return((rchar *) rnull); after the loop.
ReturnNull ==
    /\ pc = "return_null"
    /\ ret' = "rnull"
    /\ pc' = "done"
    /\ UNCHANGED <<file, mf, pos, linepos, nfgets, fcloseCount, heapData, mnfdata,
                   freeCount, i, j, heapResult, mnfresult, msgs, exitCode>>

Next ==
    \/ FopenOk
    \/ FopenFail
    \/ AllocData
    \/ AllocFail
    \/ FgetsLine
    \/ FgetsEof
    \/ PrefixDiffers
    \/ PrefixMatches
    \/ ScanI
    \/ ScanJ
    \/ FcloseMatch
    \/ AllocResult
    \/ EmptyFree
    \/ EmptyErrMsg
    \/ EmptyExit
    \/ Memcpy
    \/ Terminate
    \/ FoundFree
    \/ ReturnFound
    \/ FcloseEnd
    \/ EndFree
    \/ ReturnNull

Spec == Init /\ [][Next]_vars

\* ------------------------------------------------------------------ vocabulary of the claims

\* The routine has ended: it returned, or the process was ended.
Terminated == pc \in {"done", "exited"}

\* A line that begins with the attribute name has been read.
Matched == pc = "scan_i" \/ i # -1

\* The matching line carries no class name (both scans done, i == j).
EmptyMatch == i # -1 /\ j # -1 /\ i = j

MissingClassName == "Missing class name in manifest file"

\* The C string held by the result block: its bytes before the first NUL.
ReturnedName == [k \in 1..strlen(mnfresult) |-> mnfresult[k - 1]]

\* Physical lines of a file: a line starts at offset 0 and after each newline.
LineStarts(f) ==
    {s \in 0..(Len(f) - 1) : s = 0 \/ f[s] = "\n"}

\* Offset just past the line that starts at offset s (its newline included).
LineEnd(f, s) ==
    LET nl == {k \in (s + 1)..Len(f) : f[k] = "\n"}
    IN IF nl = {} THEN Len(f) ELSE CHOOSE k \in nl : \A m \in nl : k <= m

\* The text at offset s begins with the bytes "Main-Class:".
BeginsWithName(f, s) ==
    /\ Len(f) - s >= mclen
    /\ \A k \in 1..mclen : f[s + k] = JVMCFG_JARFILE_MANIFEST_MAIN_CLASS[k]

\* Starts of the physical lines that begin with the attribute name.
MatchStarts(f) == {s \in LineStarts(f) : BeginsWithName(f, s)}

FirstMatch(f) == CHOOSE s \in MatchStarts(f) : \A t \in MatchStarts(f) : s <= t

\* Every physical line, terminator included, fits one fgets() read.
AllLinesFit(f) ==
    \A s \in LineStarts(f) : LineEnd(f, s) - s <= JVMCFG_STDIO_BFR - 1

\* What follows the attribute name on the first matching physical line.
RestOfFirstMatch(f) ==
    SubSeq(f, FirstMatch(f) + mclen + 1, LineEnd(f, FirstMatch(f)))

\* rest = white space (a bytes), a value without white space, white space.
HasForm(rest, a, b) ==
    /\ 0 <= a /\ a < b /\ b <= Len(rest)
    /\ \A k \in 1..a : isspace(rest[k])
    /\ \A k \in (a + 1)..b : ~isspace(rest[k])
    /\ \A k \in (b + 1)..Len(rest) : isspace(rest[k])

\* The offsets at which the successive fgets() reads of a whole file start.
RECURSIVE ReadStartsFrom(_, _)
ReadStartsFrom(f, p) ==
    IF FgetsLen(f, p, JVMCFG_STDIO_BFR) = 0 THEN {}
    ELSE {p} \cup ReadStartsFrom(f, p + FgetsLen(f, p, JVMCFG_STDIO_BFR))

\* The routine ended on one of its own three exits after a successful fopen:
\* return(mnfresult), return(rnull) after the loop, exit_jvm(EXIT_MANIFEST_JAR).
OwnExit ==
    \/ pc = "done" /\ mf # "null"
    \/ pc = "exited" /\ exitCode = "EXIT_MANIFEST_JAR"

\* ------------------------------------------------------------------ C1

\* C1 as stated: when every line fits the buffer and the first line that
\* begins with "Main-Class:" is name, white space, a value without white
\* space, white space, the routine returns exactly that value.
C1_AsStated ==
    (/\ Terminated /\ mf # "null" /\ exitCode # "HEAP_GET_DATA"
     /\ AllLinesFit(file) /\ MatchStarts(file) # {})
    => \A a, b \in 0..JVMCFG_STDIO_BFR :
          HasForm(RestOfFirstMatch(file), a, b)
          => /\ pc = "done"
             /\ ret = "mnfresult"
             /\ ReturnedName = SubSeq(RestOfFirstMatch(file), a + 1, b)

\* C1 amended: the same, for a value that holds no white space and no NUL
\* byte (the result is a C string, a NUL in the line ends it).
C1_FoundValue ==
    (/\ Terminated /\ mf # "null" /\ exitCode # "HEAP_GET_DATA"
     /\ AllLinesFit(file) /\ MatchStarts(file) # {})
    => \A a, b \in 0..JVMCFG_STDIO_BFR :
          (/\ HasForm(RestOfFirstMatch(file), a, b)
           /\ \A k \in (a + 1)..b : RestOfFirstMatch(file)[k] # NUL)
          => /\ pc = "done"
             /\ ret = "mnfresult"
             /\ ReturnedName = SubSeq(RestOfFirstMatch(file), a + 1, b)

\* A value found on a second line, after white space that follows the name.
C1_Witness ==
    /\ pc = "done" /\ ret = "mnfresult"
    /\ AllLinesFit(file) /\ MatchStarts(file) # {}
    /\ FirstMatch(file) > 0
    /\ \E a, b \in 1..JVMCFG_STDIO_BFR :
          /\ HasForm(RestOfFirstMatch(file), a, b)
          /\ ReturnedName = SubSeq(RestOfFirstMatch(file), a + 1, b)

\* ------------------------------------------------------------------ C2

\* C2: once a line beginning with "Main-Class:" has been read no further
\* line is read (the stream offset and the count of reads stay as they are),
\* the stream is never read past the first physical line that begins with
\* the name, and a returned value is text of the last line read, between
\* the offsets i and j of that line.
C2_NoReadPastMatch ==
    [][ /\ Matched => (pos' = pos /\ nfgets' = nfgets /\ linepos' = linepos)
        /\ MatchStarts(file) # {} => pos' <= LineEnd(file, FirstMatch(file))
        /\ ret' = "mnfresult" =>
              ReturnedName' = SubSeq(file, linepos' + i' + 1, linepos' + j') ]_vars

\* Two lines begin with the name; the value was returned with the second
\* one unread.
C2_Witness ==
    /\ pc = "done" /\ ret = "mnfresult"
    /\ Cardinality(MatchStarts(file)) >= 2
    /\ pos < Len(file)

\* ------------------------------------------------------------------ C3

\* C3: when no line that fgets delivers from the file begins with
\* "Main-Class:" (an empty file included) the routine returns rnull, and the
\* return of rnull after the loop is reached only with the whole file read,
\* every line of it delivered, and none of them (nor any physical line)
\* beginning with "Main-Class:".
C3_NotFound ==
    /\ (pc \in {"fclose_end", "free_end", "return_null"}
        \/ (pc = "done" /\ mf # "null" /\ ret = "rnull"))
       => /\ pos = Len(file)
          /\ ~Matched
          /\ nfgets = Cardinality(ReadStartsFrom(file, 0))
          /\ \A s \in ReadStartsFrom(file, 0) : ~BeginsWithName(file, s)
          /\ MatchStarts(file) = {}
    /\ (/\ pc = "done" /\ mf # "null"
        /\ \A s \in ReadStartsFrom(file, 0) : ~BeginsWithName(file, s))
       => (ret = "rnull" /\ ~Matched)
    /\ (pc = "done" /\ mf # "null" /\ ~Matched) => ret = "rnull"

\* rnull returned after several lines were read, none matching.
C3_Witness ==
    /\ pc = "done" /\ ret = "rnull" /\ mf = "closed"
    /\ nfgets >= 2

\* ------------------------------------------------------------------ C4

C6_AsStated ==
    (pc = "done" /\ mf = "null") => ret # "rnull"

\* ------------------------------------------------------------------ C7

\* C7 as stated: a match happens only on text that begins a physical line of
\* the file (the file start, or right after a newline) with "Main-Class:".
C7_AsStated ==
    Matched => /\ linepos \in LineStarts(file)
               /\ BeginsWithName(file, linepos)
               /\ MatchStarts(file) # {}

\* ------------------------------------------------------------------ C8

\* C8: after a successful fopen the stream is closed exactly once before the
\* routine leaves by return(mnfresult), by return(rnull) after the loop or by
\* the empty-value exit; it is never closed twice and never read or closed
\* when it is not open; after a failed fopen no fclose is made.
C8_StreamReleased ==
    /\ fcloseCount <= 1
    /\ (mf = "closed") <=> (fcloseCount = 1)
    /\ mf \in {"unopened", "null"} => fcloseCount = 0
    /\ pc \in {"fgets", "fclose_match", "fclose_end"} => mf = "open"
    /\ pc \in {"errmsg", "exit_jvm", "return_found", "return_null"} => mf = "closed"
    /\ OwnExit => (mf = "closed" /\ fcloseCount = 1)
    /\ (pc = "done" /\ mf = "null") => (fcloseCount = 0 /\ nfgets = 0)

\* A class name was returned and the stream was closed once.
C8_Witness ==
    /\ pc = "done" /\ ret = "mnfresult"
    /\ mf = "closed" /\ fcloseCount = 1

\* ------------------------------------------------------------------ C9

\* C9: on a matching line of length L = strlen(mnfdata), mclen <= i <= j <= L
\* and L fits the buffer; i is the first index from mclen on that holds a
\* non-white byte (L if none), j the first index from i on that holds a
\* white byte (L if none); the result block has j - i + 1 bytes, holds the
\* bytes [i, j) of the line, none of them white space or NUL, and its NUL at
\* index j - i.
C9_ScanBounds ==
    /\ i # -1
       => /\ mclen <= i /\ i <= strlen(mnfdata)
          /\ strlen(mnfdata) <= JVMCFG_STDIO_BFR - 1
          /\ \A k \in mclen..(i - 1) : isspace(mnfdata[k])
          /\ i < strlen(mnfdata) => ~isspace(mnfdata[i])
    /\ j # -1
       => /\ i <= j /\ j <= strlen(mnfdata)
          /\ \A k \in i..(j - 1) : ~isspace(mnfdata[k])
          /\ j < strlen(mnfdata) => isspace(mnfdata[j])
    /\ heapResult = "live"
       => /\ DOMAIN mnfresult = 0..(j - i)
          /\ i < j
    /\ pc \in {"free_found", "return_found"} \/ ret = "mnfresult"
       => /\ mnfresult[j - i] = NUL
          /\ strlen(mnfresult) = j - i
          /\ Len(ReturnedName) = j - i
          /\ \A k \in 0..(j - i - 1) :
                /\ mnfresult[k] = mnfdata[i + k]
                /\ ~isspace(mnfresult[k])
                /\ mnfresult[k] \notin {NUL, UNINIT}

\* "Main-Class:a b": the value returned is the text before the white space,
\* and text that is not white space follows it on the line.
C9_Witness ==
    /\ pc = "done" /\ ret = "mnfresult"
    /\ j < strlen(mnfdata)
    /\ \E k \in (j + 1)..(strlen(mnfdata) - 1) : ~isspace(mnfdata[k])

\* ------------------------------------------------------------------ C10

\* C10: the line buffer is allocated only after a successful fopen; it is
\* freed exactly once before the routine leaves by return(mnfresult), by
\* return(rnull) after the loop or by the empty-value exit, never twice; it is
\* live whenever the routine reads or writes it, the value being copied out
\* before the free; when a class name is returned the result block is the
\* only block still allocated.
C10_LineBuffer ==
    /\ freeCount <= 1
    /\ (heapData = "freed") <=> (freeCount = 1)
    /\ heapData # "none" => mf \in {"open", "closed"}
    /\ mf \in {"unopened", "null"} => (heapData = "none" /\ heapResult = "none")
    /\ pc \in {"fgets", "strncmp", "scan_i", "scan_j", "memcpy", "terminate",
               "free_found", "free_end"} => heapData = "live"
    /\ OwnExit => (heapData = "freed" /\ freeCount = 1)
    /\ pc = "free_found"
       => \A k \in 0..(j - i - 1) : mnfresult[k] = mnfdata[i + k]
    /\ (pc = "done" /\ ret = "mnfresult")
       => (heapResult = "live" /\ heapData = "freed")
    /\ (Terminated /\ ret # "mnfresult" /\ exitCode # "HEAP_GET_DATA")
       => heapResult = "none"

\* A class name was returned after several reads into the line buffer, which
\* is freed, the result block being live.
C10_Witness ==
    /\ pc = "done" /\ ret = "mnfresult"
    /\ heapData = "freed" /\ freeCount = 1 /\ heapResult = "live"
    /\ nfgets >= 2

====
